---------------------------- MODULE Spec2Model ----------------------------
(***************************************************************************)
(* A model of derive_state_machine_future/src/ast.rs:                      *)
(*                                                                         *)
(*   - the phase-generic container StateMachine<P> / State<P> with its     *)
(*     split / join / and_then / states operations, and                    *)
(*   - the CollectIdents traversal over syn's type / expression grammar.   *)
(*                                                                         *)
(* Two specifications share the variables: SpecPhase drives the container  *)
(* operations, SpecCollect drives the collector.                           *)
(***************************************************************************)
EXTENDS Integers, Sequences, FiniteSets, TLC

VARIABLES
    machine,      \* the StateMachine<P> value currently owned by the pipeline
    parts,        \* the (machine, extra, states) triple returned by split
    state_parts,  \* the per-state (state, extra) pairs returned by State::split
    pc,           \* which of the above the pipeline currently owns
    last,         \* the operation that produced the current value, with its inputs
    node,         \* the syntax node collect_idents was last invoked on
    idents,       \* the HashSet<syn::Ident> accumulator
    before,       \* the accumulator as it was before the last invocation
    cpc,          \* collector position: "ready", "done" or "aborted"
    entry         \* which impl of CollectIdents was the entry point

phaseVars == <<machine, parts, state_parts, pc, last>>
collectVars == <<node, idents, before, cpc, entry>>
vars == <<machine, parts, state_parts, pc, last, node, idents, before, cpc, entry>>

(***************************************************************************)
(* Bounds of the model.                                                    *)
(***************************************************************************)
\* longest list of states of a machine drawn as an input
MaxStates == 2
\* longest list (tuple elements, arguments, bounds) in a drawn syntax node
MaxElems == 2

(***************************************************************************)
(* Small helpers on sequences.                                             *)
(***************************************************************************)
SeqsUpTo(S, n) == UNION {[1..k -> S] : k \in 0..n}

(***************************************************************************)
(*                      PART 1: the phase container                        *)
(***************************************************************************)

\* The unit value (): the extra payload of phases::NoPhase.
Unit == "()"

\* The phases of the model: NoPhase and one phase with real payloads.
Phases == {"NoPhase", "Q"}

\* P::StateMachineExtra
StateMachineExtra(P) == IF P = "NoPhase" THEN {Unit} ELSE {"q1", "q2"}

\* P::StateExtra
StateExtra(P) == IF P = "NoPhase" THEN {Unit} ELSE {"s1", "s2"}

\* struct State<P>: the parsed variants of the enum (extra = Default).
ParsedStates ==
    { [ident |-> "Start", attrs |-> <<"doc">>, fields |-> <<"T">>,
       start |-> TRUE, ready |-> FALSE, error |-> FALSE,
       transitions |-> <<"Waiting">>, extra |-> Unit],
      [ident |-> "Connected", attrs |-> <<>>, fields |-> <<>>,
       start |-> FALSE, ready |-> TRUE, error |-> FALSE,
       transitions |-> <<>>, extra |-> Unit],
      [ident |-> "Failed", attrs |-> <<"cfg">>, fields |-> <<"E">>,
       start |-> FALSE, ready |-> FALSE, error |-> TRUE,
       transitions |-> <<>>, extra |-> Unit] }

\* darling::ast::Data::Enum(variants)
DataEnum(variants) == [shape |-> "Enum", variants |-> variants]

\* struct StateMachine<P>: what FromDeriveInput hands over (supports(enum_any),
\* extra = Default).
ParsedMachines ==
    { [ident |-> "Connect", vis |-> v, generics |-> <<"T", "E">>,
       data |-> DataEnum(s), attrs |-> <<"allow">>, derive |-> d, extra |-> Unit]
      : v \in {"pub", "inherited"}, d \in {<<>>, <<"Clone">>},
        s \in SeqsUpTo(ParsedStates, MaxStates) }

\* darling::ast::Data::take_enum: Some(variants) for an enum, None for a struct
\* (an Option is a sequence of length at most one).
TakeEnum(data) == IF data.shape = "Enum" THEN <<data.variants>> ELSE <<>>

\* Whether StateMachine::split returns: take_enum().unwrap() panics on None.
SplitReturns(self) == TakeEnum(self.data) # <<>>

\* A faulty split: the extracted payload is replaced by the default one.
SplitDefaultExtra(self) ==
    LET states == TakeEnum(self.data)[1]
        m == [ident |-> self.ident,
              vis |-> self.vis,
              generics |-> self.generics,
              data |-> DataEnum(<<>>),
              attrs |-> self.attrs,
              derive |-> self.derive,
              extra |-> Unit]
    IN <<m, Unit, states>>

\* StateMachine::split
Split(self) ==
    LET states == TakeEnum(self.data)[1]
        extra == self.extra
        m == [ident |-> self.ident,
              vis |-> self.vis,
              generics |-> self.generics,
              data |-> DataEnum(<<>>),
              attrs |-> self.attrs,
              derive |-> self.derive,
              extra |-> Unit]
    IN <<m, extra, states>>

\* Whether StateMachine::states returns: unreachable!() on Data::Struct.
StatesReturns(self) == self.data.shape = "Enum"

\* StateMachine::states
States(self) == self.data.variants

\* A faulty join: the machine keeps its own data instead of taking `states`.
JoinKeepsOwnData(self, extra, states) ==
    [ident |-> self.ident,
     vis |-> self.vis,
     generics |-> self.generics,
     data |-> self.data,
     attrs |-> self.attrs,
     derive |-> self.derive,
     extra |-> extra]

\* A faulty join: the new states are appended to the ones the machine held.
JoinAppends(self, extra, states) ==
    [ident |-> self.ident,
     vis |-> self.vis,
     generics |-> self.generics,
     data |-> DataEnum(self.data.variants \o states),
     attrs |-> self.attrs,
     derive |-> self.derive,
     extra |-> extra]

\* StateMachine<NoPhase>::join
Join(self, extra, states) ==
    [ident |-> self.ident,
     vis |-> self.vis,
     generics |-> self.generics,
     data |-> DataEnum(states),
     attrs |-> self.attrs,
     derive |-> self.derive,
     extra |-> extra]

\* State::split
StateSplit(self) ==
    LET extra == self.extra
        state == [ident |-> self.ident,
                  attrs |-> self.attrs,
                  fields |-> self.fields,
                  start |-> self.start,
                  ready |-> self.ready,
                  error |-> self.error,
                  transitions |-> self.transitions,
                  extra |-> Unit]
    IN <<state, extra>>

\* A faulty join: the ready and error markers are exchanged.
StateJoinSwapsMarkers(self, extra) ==
    [ident |-> self.ident,
     attrs |-> self.attrs,
     fields |-> self.fields,
     start |-> self.start,
     ready |-> self.error,
     error |-> self.ready,
     transitions |-> self.transitions,
     extra |-> extra]

\* State<NoPhase>::join
StateJoin(self, extra) ==
    [ident |-> self.ident,
     attrs |-> self.attrs,
     fields |-> self.fields,
     start |-> self.start,
     ready |-> self.ready,
     error |-> self.error,
     transitions |-> self.transitions,
     extra |-> extra]

(***************************************************************************)
(* The caller-supplied closures handed to and_then.  A closure is a value  *)
(* of the model; Apply... is its body.                                     *)
(***************************************************************************)

\* A State<Q> literal a closure may build without calling join.
FreshState ==
    [ident |-> "Fresh", attrs |-> <<>>, fields |-> <<>>,
     start |-> FALSE, ready |-> FALSE, error |-> FALSE,
     transitions |-> <<>>, extra |-> "s1"]

\* F: FnMut(State<NoPhase>, P::StateExtra) -> State<Q>, for a target phase Q.
StateFnsInto(Q) ==
    {[kind |-> "join", extra |-> x] : x \in StateExtra(Q)}
      \cup (IF Q = "Q" THEN {[kind |-> "by_role"], [kind |-> "fresh"]} ELSE {})

\* The closures that keep the phase (Q = P): state.join(extra).
StateFnSame == [kind |-> "rejoin"]

StateFns == {StateFnSame} \cup UNION {StateFnsInto(Q) : Q \in Phases}

\* The extra a state closure passes to State::join.
StateFnExtra(f, state, extra) ==
    CASE f.kind = "join" -> f.extra
      [] f.kind = "rejoin" -> extra
      [] f.kind = "by_role" -> IF state.start THEN "s1" ELSE "s2"

\* The body of a state closure.
ApplyStateFn(f, state, extra) ==
    IF f.kind = "fresh"
    THEN FreshState
    ELSE StateJoin(state, StateFnExtra(f, state, extra))

\* State::and_then: the value returned and the arguments of each call of f.
StateAndThen(self, f) ==
    LET p == StateSplit(self)
    IN [ret |-> ApplyStateFn(f, p[1], p[2]), f_calls |-> <<p>>]

\* A StateMachine<Q> literal a closure may build without calling join.
FreshMachine ==
    [ident |-> "Other", vis |-> "pub", generics |-> <<>>,
     data |-> DataEnum(<<FreshState>>), attrs |-> <<>>, derive |-> <<>>,
     extra |-> "q1"]

\* F: FnMut(StateMachine<NoPhase>, P::StateMachineExtra, Vec<State<P>>)
\*      -> StateMachine<Q>
MachineFns ==
    {[kind |-> "join", extra |-> e, each |-> g]
        : e \in StateMachineExtra("Q"), g \in StateFnsInto("Q")}
      \cup {[kind |-> "join", extra |-> Unit, each |-> g] : g \in StateFnsInto("NoPhase")}
      \cup {[kind |-> "rejoin"], [kind |-> "fresh"]}

\* The extra a machine closure passes to StateMachine::join.
MachineFnExtra(f, extra) == IF f.kind = "join" THEN f.extra ELSE extra

\* The states a machine closure passes to StateMachine::join:
\* states.into_iter().map(|s| s.and_then(each)).collect()
MachineFnStates(f, states) ==
    IF f.kind = "join"
    THEN [i \in 1..Len(states) |-> StateAndThen(states[i], f.each).ret]
    ELSE states

\* The body of a machine closure.
ApplyMachineFn(f, m, extra, states) ==
    IF f.kind = "fresh"
    THEN FreshMachine
    ELSE Join(m, MachineFnExtra(f, extra), MachineFnStates(f, states))

\* A faulty and_then: f receives the default payload, not the extracted one.
AndThenDefaultExtra(self, f) ==
    LET p == Split(self)
    IN [ret |-> ApplyMachineFn(f, p[1], Unit, p[3]),
        f_calls |-> <<<<p[1], Unit, p[3]>>>>]

\* StateMachine::and_then: the value returned and the arguments of each call
\* of f.
AndThen(self, f) ==
    LET p == Split(self)
    IN [ret |-> ApplyMachineFn(f, p[1], p[2], p[3]), f_calls |-> <<p>>]

(***************************************************************************)
(* Typing of the values: a list of states is a Vec<State<Q>> when every    *)
(* extra is a Q::StateExtra.                                               *)
(***************************************************************************)
StatesInPhase(states, Q) ==
    \A i \in 1..Len(states) : states[i].extra \in StateExtra(Q)

MachineInPhase(m, Q) ==
    /\ m.extra \in StateMachineExtra(Q)
    /\ m.data.shape = "Enum" => StatesInPhase(m.data.variants, Q)

\* The State<Q> values a caller may build for join: one per parsed state.
StatesOf(Q) ==
    {StateJoin(p, IF Q = "NoPhase" THEN Unit ELSE IF p.start THEN "s1" ELSE "s2")
        : p \in ParsedStates}

(***************************************************************************)
(* The actions of the phase pipeline.                                      *)
(***************************************************************************)
NoParts == <<>>

\* The pipeline owns a freshly parsed machine; the collector is not running.
InitPhase ==
    /\ machine \in ParsedMachines
    /\ parts = NoParts
    /\ state_parts = <<>>
    /\ pc = "machine"
    /\ last = [op |-> "parsed"]
    /\ node = [kind |-> "None"]
    /\ idents = {}
    /\ before = {}
    /\ cpc = "idle"
    /\ entry = "none"

\* let (machine, extra, states) = m.split();
DoSplit ==
    /\ pc = "machine"
    /\ IF SplitReturns(machine)
       THEN /\ parts' = Split(machine)
            /\ pc' = "parts"
            /\ last' = [op |-> "split", self |-> machine]
       ELSE /\ parts' = parts
            /\ pc' = "panicked"
            /\ last' = [op |-> "split", self |-> machine]
    /\ UNCHANGED <<machine, state_parts>>
    /\ UNCHANGED collectVars

\* m.states()
DoStates ==
    /\ pc = "machine"
    /\ last.op # "states"
    /\ IF StatesReturns(machine)
       THEN /\ pc' = pc
            /\ last' = [op |-> "states", self |-> machine, ret |-> States(machine)]
       ELSE /\ pc' = "panicked"
            /\ last' = [op |-> "states", self |-> machine]
    /\ UNCHANGED <<machine, parts, state_parts>>
    /\ UNCHANGED collectVars

\* machine.join(extra, states) on the machine and the states returned by split
DoJoin ==
    /\ pc = "parts"
    /\ \E Q \in Phases :
         /\ StatesInPhase(parts[3], Q)
         /\ \E e \in StateMachineExtra(Q) :
              /\ machine' = Join(parts[1], e, parts[3])
              /\ last' = [op |-> "join", self |-> parts[1], extra |-> e,
                          states |-> parts[3],
                          split_of |-> IF last.op = "split" THEN <<last.self>> ELSE <<>>]
    /\ pc' = "machine"
    /\ parts' = NoParts
    /\ UNCHANGED state_parts
    /\ UNCHANGED collectVars

\* m0.join(extra, states) on a StateMachine<NoPhase> that still holds states
DoJoinParsed ==
    /\ pc = "machine"
    /\ MachineInPhase(machine, "NoPhase")
    /\ \E Q \in Phases :
         \E e \in StateMachineExtra(Q) :
           \E s \in SeqsUpTo(StatesOf(Q), MaxStates) :
             /\ machine' = Join(machine, e, s)
             /\ last' = [op |-> "join", self |-> machine, extra |-> e, states |-> s,
                         split_of |-> <<>>]
    /\ UNCHANGED <<parts, state_parts, pc>>
    /\ UNCHANGED collectVars

\* m.and_then(f)
DoAndThen ==
    /\ pc = "machine"
    /\ \E f \in MachineFns :
         IF SplitReturns(machine)
         THEN LET r == AndThen(machine, f)
              IN /\ machine' = r.ret
                 /\ last' = [op |-> "and_then", self |-> machine, f |-> f,
                             f_calls |-> r.f_calls]
                 /\ pc' = pc
         ELSE /\ machine' = machine
              /\ last' = [op |-> "and_then", self |-> machine, f |-> f,
                          f_calls |-> <<>>]
              /\ pc' = "panicked"
    /\ UNCHANGED <<parts, state_parts>>
    /\ UNCHANGED collectVars

\* states.into_iter().map(|s| s.split())
DoStateSplit ==
    /\ pc = "parts"
    /\ state_parts' = [i \in 1..Len(parts[3]) |-> StateSplit(parts[3][i])]
    /\ parts' = <<parts[1], parts[2], <<>>>>
    /\ pc' = "state_parts"
    /\ last' = [op |-> "state_split", selfs |-> parts[3]]
    /\ UNCHANGED machine
    /\ UNCHANGED collectVars

\* pairs.into_iter().map(|(s, _)| s.join(x))
DoStateJoin ==
    /\ pc = "state_parts"
    /\ \E Q \in Phases :
         \E xs \in [1..Len(state_parts) -> StateExtra(Q)] :
           /\ parts' = <<parts[1], parts[2],
                         [i \in 1..Len(state_parts) |->
                             StateJoin(state_parts[i][1], xs[i])]>>
           /\ last' = [op |-> "state_join",
                       selfs |-> [i \in 1..Len(state_parts) |-> state_parts[i][1]],
                       extras |-> xs]
    /\ state_parts' = <<>>
    /\ pc' = "parts"
    /\ UNCHANGED machine
    /\ UNCHANGED collectVars

\* states.into_iter().map(|s| s.and_then(f))
DoStateAndThen ==
    /\ pc = "parts"
    /\ last.op # "state_and_then"
    /\ \E f \in StateFns :
         /\ parts' = <<parts[1], parts[2],
                       [i \in 1..Len(parts[3]) |-> StateAndThen(parts[3][i], f).ret]>>
         /\ last' = [op |-> "state_and_then", selfs |-> parts[3], f |-> f,
                     f_calls |-> [i \in 1..Len(parts[3]) |->
                                     StateAndThen(parts[3][i], f).f_calls]]
    /\ UNCHANGED <<machine, state_parts, pc>>
    /\ UNCHANGED collectVars

NextPhase ==
    \/ DoSplit
    \/ DoStates
    \/ DoJoin
    \/ DoJoinParsed
    \/ DoAndThen
    \/ DoStateSplit
    \/ DoStateJoin
    \/ DoStateAndThen

SpecPhase == InitPhase /\ [][NextPhase]_vars

(***************************************************************************)
(*                   PART 2: the CollectIdents traversal                   *)
(*                                                                         *)
(* A syntax node is a record tagged with `kind` (the enum variant) whose   *)
(* fields carry syn's names.  An Option is a sequence of length at most    *)
(* one, a Vec or Punctuated a sequence.  The accumulator threads the       *)
(* HashSet through the calls in source order together with a flag that is  *)
(* set once a panic unwinds: nothing executes after it.                    *)
(***************************************************************************)

\* idents.insert(id)
Insert(id, acc) ==
    IF acc.panicked THEN acc ELSE [acc EXCEPT !.idents = @ \cup {id}]

\* unimplemented!()
Panic(acc) == [acc EXCEPT !.panicked = TRUE]

\* A faulty collector for lifetimes: the identifier is added like a type's.
CollectLifetimeInserts(self, acc) == Insert(self.ident, acc)

\* impl CollectIdents for syn::Lifetime
CollectLifetime(self, acc) ==
    IF acc.panicked THEN acc ELSE Panic(acc)

RECURSIVE CollectLifetimes(_, _)
\* lifetimes.iter().for_each(|l| l.collect_idents(idents))
CollectLifetimes(ls, acc) ==
    IF ls = <<>> THEN acc
    ELSE CollectLifetimes(Tail(ls), CollectLifetime(Head(ls), acc))

\* impl CollectIdents for syn::LifetimeDef
CollectLifetimeDef(self, acc) ==
    CollectLifetime(self.lifetime, CollectLifetimes(self.bounds, acc))

RECURSIVE CollectLifetimeDefs(_, _)
\* bound_lifetimes.lifetimes.iter().for_each(|b| b.collect_idents(idents))
CollectLifetimeDefs(ds, acc) ==
    IF ds = <<>> THEN acc
    ELSE CollectLifetimeDefs(Tail(ds), CollectLifetimeDef(Head(ds), acc))

\* The Option<BoundLifetimes> of a trait bound or a type predicate: each
\* LifetimeDef of the binder, if there is a binder.
CollectBoundLifetimes(opt, acc) ==
    IF opt = <<>> THEN acc ELSE CollectLifetimeDefs(opt[1].lifetimes, acc)

RECURSIVE CollectType(_, _)
RECURSIVE CollectTypes(_, _)
RECURSIVE CollectExpr(_, _)
RECURSIVE CollectExprs(_, _)
RECURSIVE CollectBareFn(_, _)
RECURSIVE CollectBareFnInputs(_, _)
RECURSIVE CollectPath(_, _)
RECURSIVE CollectSegments(_, _)
RECURSIVE CollectPathArguments(_, _)
RECURSIVE CollectGenericArgument(_, _)
RECURSIVE CollectGenericArguments(_, _)
RECURSIVE CollectTypeParamBound(_, _)
RECURSIVE CollectBounds(_, _)

\* A faulty opaque arm: the bounds of a trait object or impl-trait type are
\* recursed into.
CollectOpaqueTypeRecurses(self, acc) ==
    IF self.kind \in {"TraitObject", "ImplTrait"}
    THEN CollectBounds(self.bounds, acc)
    ELSE acc

\* syn::Type::Never | Macro | TraitObject | ImplTrait | Infer => {}
CollectOpaqueType(self, acc) == acc

\* syn::Type::Reference: the lifetime, if present, then the referent.
CollectReference(self, acc) ==
    CollectType(self.elem,
                IF self.lifetime # <<>>
                THEN CollectLifetime(self.lifetime[1], acc)
                ELSE acc)

\* impl CollectIdents for syn::Type
CollectType(self, acc) ==
    IF acc.panicked THEN acc
    ELSE CASE self.kind = "Path" ->
                CollectPath(self.path,
                            IF self.qself # <<>>
                            THEN CollectType(self.qself[1].ty, acc)
                            ELSE acc)
           [] self.kind = "Slice" -> CollectType(self.elem, acc)
           [] self.kind = "Paren" -> CollectType(self.elem, acc)
           [] self.kind = "Ptr" -> CollectType(self.elem, acc)
           [] self.kind = "Reference" -> CollectReference(self, acc)
           [] self.kind = "Tuple" -> CollectTypes(self.elems, acc)
           [] self.kind = "BareFn" -> CollectBareFn(self, acc)
           [] self.kind = "Array" -> CollectType(self.elem, acc)
           [] self.kind \in {"Never", "Macro", "TraitObject", "ImplTrait", "Infer"} ->
                CollectOpaqueType(self, acc)

\* tys.iter().for_each(|v| v.collect_idents(idents))
CollectTypes(tys, acc) ==
    IF tys = <<>> THEN acc
    ELSE CollectTypes(Tail(tys), CollectType(Head(tys), acc))

\* syn::Expr::Lit(_) => {}
CollectLit(self, acc) == acc

\* impl CollectIdents for syn::Expr
CollectExpr(self, acc) ==
    IF acc.panicked THEN acc
    ELSE CASE self.kind = "Call" ->
                CollectExprs(self.args, CollectExpr(self.func, acc))
           [] self.kind = "Binary" ->
                CollectExpr(self.right, CollectExpr(self.left, acc))
           [] self.kind = "Index" ->
                CollectExpr(self.index, CollectExpr(self.expr, acc))
           [] self.kind = "Unary" -> CollectExpr(self.expr, acc)
           [] self.kind = "Paren" -> CollectExpr(self.expr, acc)
           [] self.kind = "Cast" ->
                CollectExpr(self.expr, CollectType(self.ty, acc))
           [] self.kind = "Path" -> CollectPath(self.path, acc)
           [] self.kind = "Lit" -> CollectLit(self, acc)

\* args.iter().for_each(|v| v.collect_idents(idents))
CollectExprs(es, acc) ==
    IF es = <<>> THEN acc
    ELSE CollectExprs(Tail(es), CollectExpr(Head(es), acc))

\* self.inputs.iter().for_each(|v| v.ty.collect_idents(idents))
CollectBareFnInputs(inputs, acc) ==
    IF inputs = <<>> THEN acc
    ELSE CollectBareFnInputs(Tail(inputs), CollectType(Head(inputs).ty, acc))

\* The output of a bare fn or of parenthesized path arguments:
\* ReturnType::Type(_, ty) is collected, ReturnType::Default is not.
CollectReturnType(output, acc) ==
    IF output.kind = "Type" THEN CollectType(output.ty, acc) ELSE acc

\* impl CollectIdents for syn::TypeBareFn
CollectBareFn(self, acc) ==
    CollectReturnType(self.output, CollectBareFnInputs(self.inputs, acc))

\* syn::Path::global
Global(self) == self.leading_colon

\* A faulty path rule: the leading colon is not looked at.
PathAddsIdentIgnoresGlobal(self) == Len(self.segments) = 1

\* if self.segments.len() == 1 && !self.global()
PathAddsIdent(self) == Len(self.segments) = 1 /\ ~Global(self)

\* self.segments.iter().for_each(|s| s.arguments.collect_idents(idents))
CollectSegments(segments, acc) ==
    IF segments = <<>> THEN acc
    ELSE CollectSegments(Tail(segments),
                         CollectPathArguments(Head(segments).arguments, acc))

\* impl CollectIdents for syn::Path
CollectPath(self, acc) ==
    IF acc.panicked THEN acc
    ELSE CollectSegments(self.segments,
                         IF PathAddsIdent(self)
                         THEN Insert(self.segments[1].ident, acc)
                         ELSE acc)

\* One syn::GenericArgument of an angle-bracketed list.
CollectGenericArgument(v, acc) ==
    IF acc.panicked THEN acc
    ELSE CASE v.kind = "Lifetime" -> CollectLifetime(v.lifetime, acc)
           [] v.kind = "Type" -> CollectType(v.ty, acc)
           [] v.kind = "Binding" -> CollectType(v.ty, acc)
           [] v.kind = "Const" -> acc

\* bracket.args.iter().for_each(|v| match v { ... })
CollectGenericArguments(args, acc) ==
    IF args = <<>> THEN acc
    ELSE CollectGenericArguments(Tail(args), CollectGenericArgument(Head(args), acc))

\* impl CollectIdents for syn::PathArguments.  The match names the
\* AngleBracketed and Parenthesized variants; a segment written without
\* arguments (PathArguments::None) has nothing to collect.
CollectPathArguments(self, acc) ==
    IF acc.panicked THEN acc
    ELSE CASE self.kind = "AngleBracketed" ->
                CollectGenericArguments(self.args, acc)
           [] self.kind = "Parenthesized" ->
                CollectReturnType(self.output, CollectTypes(self.inputs, acc))
           [] self.kind = "None" -> acc

\* impl CollectIdents for syn::TypeParamBound
CollectTypeParamBound(self, acc) ==
    IF acc.panicked THEN acc
    ELSE CASE self.kind = "Trait" ->
                CollectPath(self.path, CollectBoundLifetimes(self.lifetimes, acc))
           [] self.kind = "Lifetime" -> CollectLifetime(self.lifetime, acc)

\* bounds.iter().for_each(|b| b.collect_idents(idents))
CollectBounds(bounds, acc) ==
    IF bounds = <<>> THEN acc
    ELSE CollectBounds(Tail(bounds), CollectTypeParamBound(Head(bounds), acc))

\* impl CollectIdents for syn::TypeParam
CollectTypeParam(self, acc) ==
    Insert(self.ident,
           CollectBounds(self.bounds,
                         IF self.default # <<>>
                         THEN CollectType(self.default[1], acc)
                         ELSE acc))

\* impl CollectIdents for syn::WherePredicate
CollectWherePredicate(self, acc) ==
    CASE self.kind = "Type" ->
            CollectType(self.bounded_ty,
                        CollectBounds(self.bounds,
                                      CollectBoundLifetimes(self.lifetimes, acc)))
      [] self.kind = "Lifetime" ->
            CollectLifetime(self.lifetime, CollectLifetimes(self.bounds, acc))
      [] self.kind = "Eq" ->
            CollectType(self.rhs_ty, CollectType(self.lhs_ty, acc))

(***************************************************************************)
(* The syntax nodes the collector is run on.                               *)
(***************************************************************************)

\* syn::PathArguments::None
ArgsNone == [kind |-> "None"]

\* syn::PathArguments::AngleBracketed
ArgsAngle(args) == [kind |-> "AngleBracketed", args |-> args]

\* syn::PathArguments::Parenthesized
ArgsParen(inputs, output) ==
    [kind |-> "Parenthesized", inputs |-> inputs, output |-> output]

\* syn::PathSegment
Segment(ident, arguments) == [ident |-> ident, arguments |-> arguments]

\* syn::Path
Path(leading_colon, segments) ==
    [leading_colon |-> leading_colon, segments |-> segments]

\* syn::Type::Path
TypePath(qself, path) == [kind |-> "Path", qself |-> qself, path |-> path]

\* The type written as the single identifier `id`.
BareType(id) == TypePath(<<>>, Path(FALSE, <<Segment(id, ArgsNone)>>))

\* syn::Lifetime
Lifetime(id) == [ident |-> id]

\* syn::Type::Reference
Reference(lifetime, elem) ==
    [kind |-> "Reference", lifetime |-> lifetime, elem |-> elem]

\* syn::ReturnType
ReturnTypes ==
    {[kind |-> "Default"],
     [kind |-> "Type", ty |-> BareType("U")],
     [kind |-> "Type", ty |-> Reference(<<Lifetime("'a")>>, BareType("U"))]}

\* syn::Expr: literals and paths, then one composite of each variant.
LeafExprs ==
    {[kind |-> "Lit", lit |-> "T"],
     [kind |-> "Path", path |-> Path(FALSE, <<Segment("N", ArgsNone)>>)],
     [kind |-> "Path", path |-> Path(FALSE, <<Segment("a", ArgsNone),
                                             Segment("N", ArgsNone)>>)]}

\* syn::GenericArgument
GenericArguments ==
    {[kind |-> "Type", ty |-> BareType("T")],
     [kind |-> "Type", ty |-> BareType("U")],
     [kind |-> "Lifetime", lifetime |-> Lifetime("'a")],
     [kind |-> "Binding", ident |-> "Item", ty |-> BareType("U")],
     [kind |-> "Const",
      expr |-> [kind |-> "Path", path |-> Path(FALSE, <<Segment("N", ArgsNone)>>)]]}

\* Angle-bracketed arguments that hold a type with parts of its own:
\* `<&'a T>`, `<[U]>`, `<a::C<T>>`
NestedArguments ==
    {ArgsAngle(<<[kind |-> "Type", ty |-> y]>>)
        : y \in {Reference(<<Lifetime("'a")>>, BareType("T")),
                 [kind |-> "Slice", elem |-> BareType("U")],
                 TypePath(<<>>, Path(FALSE, <<Segment("a", ArgsNone),
                     Segment("C", ArgsAngle(<<[kind |-> "Type",
                                              ty |-> BareType("T")]>>))>>))}}

\* syn::PathArguments
PathArgumentsInputs ==
    {ArgsNone}
      \cup NestedArguments
      \cup {ArgsAngle(a) : a \in SeqsUpTo(GenericArguments, MaxElems)}
      \cup {ArgsParen(i, o) : i \in SeqsUpTo({BareType("T"), BareType("U")}, MaxElems),
                              o \in ReturnTypes}

\* syn::Path: one, two or three segments, with or without a leading `::`,
\* the arguments on the last segment or on the first.
PathInputs ==
    {Path(g, <<Segment("T", ArgsNone)>>) : g \in BOOLEAN}
      \cup {Path(g, <<Segment("C", a)>>) : g \in BOOLEAN, a \in PathArgumentsInputs}
      \cup {Path(g, <<Segment("a", ArgsNone), Segment("C", a)>>)
              : g \in BOOLEAN, a \in PathArgumentsInputs}
      \cup {Path(g, <<Segment("a", a), Segment("C", ArgsNone)>>)
              : g \in BOOLEAN, a \in PathArgumentsInputs}
      \cup {Path(g, <<Segment("a", ArgsNone), Segment("b", ArgsNone), Segment("C", a)>>)
              : g \in BOOLEAN, a \in PathArgumentsInputs}

\* syn::TypeParamBound
TypeParamBounds ==
    {[kind |-> "Lifetime", lifetime |-> Lifetime("'a")]}
      \cup {[kind |-> "Trait", lifetimes |-> <<>>, path |-> q]
              : q \in {Path(FALSE, <<Segment("Trait",
                                ArgsAngle(<<[kind |-> "Type", ty |-> BareType("U")]>>))>>),
                       Path(FALSE, <<Segment("a", ArgsNone), Segment("Trait",
                                ArgsAngle(<<[kind |-> "Type", ty |-> BareType("T")]>>))>>)}}
      \cup {[kind |-> "Trait", lifetimes |-> <<b>>,
             path |-> Path(FALSE, <<Segment("Trait", ArgsNone)>>)]
              : b \in {[lifetimes |-> <<>>],
                       [lifetimes |-> <<[lifetime |-> Lifetime("'a"),
                                         bounds |-> <<>>]>>]}}

\* The types placed under one more constructor.
InnerTypes ==
    {BareType("T"), BareType("U"),
     [kind |-> "Never"],
     TypePath(<<>>, Path(FALSE, <<Segment("a", ArgsNone), Segment("b", ArgsNone),
                  Segment("C", ArgsAngle(<<[kind |-> "Type", ty |-> BareType("T")]>>))>>)),
     Reference(<<>>, BareType("T")),
     Reference(<<Lifetime("'a")>>, BareType("T")),
     [kind |-> "Slice", elem |-> BareType("T")],
     [kind |-> "TraitObject",
      bounds |-> <<[kind |-> "Trait", lifetimes |-> <<>>,
                    path |-> Path(FALSE, <<Segment("Trait",
                                ArgsAngle(<<[kind |-> "Type", ty |-> BareType("T")]>>))>>)],
                   [kind |-> "Lifetime", lifetime |-> Lifetime("'a")]>>]}

\* The element types of tuples and the argument types of bare fns.
ElemTypes ==
    {BareType("T"), BareType("U"), Reference(<<Lifetime("'a")>>, BareType("T"))}

\* syn::TypeBareFn (a syn::Type::BareFn)
BareFnInputs ==
    {[kind |-> "BareFn", lifetimes |-> l,
      inputs |-> [i \in 1..Len(tys) |-> [ty |-> tys[i]]], output |-> o]
        : l \in {<<>>, <<[lifetimes |-> <<[lifetime |-> Lifetime("'a"),
                                          bounds |-> <<>>]>>]>>},
          tys \in SeqsUpTo(ElemTypes, MaxElems), o \in ReturnTypes}

\* syn::Type::Never | Macro | TraitObject | ImplTrait | Infer
OpaqueTypes ==
    {[kind |-> "Never"], [kind |-> "Infer"],
     [kind |-> "Macro",
      mac |-> [path |-> Path(FALSE, <<Segment("T", ArgsNone)>>), tts |-> <<"T", "'a">>]]}
      \cup {[kind |-> k, bounds |-> b]
              : k \in {"TraitObject", "ImplTrait"},
                b \in SeqsUpTo(TypeParamBounds, MaxElems) \ {<<>>}}

\* syn::Type
TypeInputs ==
    {TypePath(<<>>, q) : q \in PathInputs}
      \cup {TypePath(<<[ty |-> s]>>, Path(FALSE, <<Segment("a", ArgsNone), Segment("C", a)>>))
              : s \in InnerTypes,
                a \in {ArgsNone, ArgsAngle(<<[kind |-> "Type", ty |-> BareType("U")]>>)}}
      \cup {[kind |-> k, elem |-> e] : k \in {"Slice", "Paren", "Ptr"}, e \in InnerTypes}
      \cup {Reference(l, e) : l \in {<<>>, <<Lifetime("'a")>>}, e \in InnerTypes}
      \cup {[kind |-> "Array", elem |-> e, len |-> n] : e \in InnerTypes, n \in LeafExprs}
      \cup {[kind |-> "Tuple", elems |-> es] : es \in SeqsUpTo(ElemTypes, MaxElems)}
      \cup {[kind |-> "Tuple", elems |-> <<e>>] : e \in InnerTypes}
      \cup BareFnInputs
      \cup OpaqueTypes

\* syn::Expr
ExprInputs ==
    LeafExprs
      \cup {[kind |-> "Call", func |-> f, args |-> as]
              : f \in LeafExprs, as \in SeqsUpTo(LeafExprs, MaxElems)}
      \cup {[kind |-> "Binary", left |-> l, right |-> r] : l \in LeafExprs, r \in LeafExprs}
      \cup {[kind |-> "Index", expr |-> e, index |-> i] : e \in LeafExprs, i \in LeafExprs}
      \cup {[kind |-> k, expr |-> e] : k \in {"Unary", "Paren"}, e \in LeafExprs}
      \cup {[kind |-> "Cast", expr |-> e, ty |-> y] : e \in LeafExprs, y \in InnerTypes}
      \cup {[kind |-> "Unary",
             expr |-> [kind |-> "Cast", expr |-> e, ty |-> y]]
              : e \in LeafExprs, y \in InnerTypes}

\* syn::LifetimeDef
LifetimeDefInputs ==
    {[lifetime |-> Lifetime("'a"), bounds |-> b]
        : b \in SeqsUpTo({Lifetime("'b"), Lifetime("'c")}, MaxElems)}

\* syn::TypeParam
TypeParamInputs ==
    {[ident |-> id, bounds |-> b, default |-> d]
        : id \in {"T", "V"},
          b \in SeqsUpTo(TypeParamBounds, MaxElems),
          d \in {<<>>, <<BareType("U")>>,
                 <<Reference(<<Lifetime("'a")>>, BareType("U"))>>}}

\* syn::WherePredicate
WherePredicateInputs ==
    {[kind |-> "Type", lifetimes |-> l, bounded_ty |-> y, bounds |-> b]
        : l \in {<<>>, <<[lifetimes |-> <<>>]>>,
                 <<[lifetimes |-> <<[lifetime |-> Lifetime("'a"),
                                     bounds |-> <<Lifetime("'b")>>]>>]>>},
          y \in {BareType("T"), Reference(<<Lifetime("'a")>>, BareType("T"))},
          b \in SeqsUpTo(TypeParamBounds, MaxElems)}
      \cup {[kind |-> "Lifetime", lifetime |-> Lifetime("'a"), bounds |-> b]
              : b \in SeqsUpTo({Lifetime("'b"), Lifetime("'c")}, MaxElems)}
      \cup {[kind |-> "Eq", lhs_ty |-> l, rhs_ty |-> r]
              : l \in InnerTypes, r \in InnerTypes}

\* The HashSet handed to the first call: empty, or holding identifiers of
\* earlier calls.
InitialIdents == {{}, {"T"}, {"C", "X"}}

(***************************************************************************)
(* The actions of the collector: one per impl of CollectIdents.            *)
(***************************************************************************)

\* The collector is about to be called; the phase pipeline is not running.
InitCollect ==
    /\ idents \in InitialIdents
    /\ before = {}
    /\ node = [kind |-> "None"]
    /\ cpc = "ready"
    /\ entry = "none"
    /\ machine = [ident |-> "none"]
    /\ parts = NoParts
    /\ state_parts = <<>>
    /\ pc = "idle"
    /\ last = [op |-> "none"]

\* The accumulator a call starts with.
Start == [idents |-> idents, panicked |-> FALSE]

\* The state after a call on n through impl e that ended with accumulator r.
Finish(e, n, r) ==
    /\ cpc = "ready"
    /\ node' = n
    /\ entry' = e
    /\ before' = idents
    /\ idents' = r.idents
    /\ cpc' = IF r.panicked THEN "aborted" ELSE "done"
    /\ UNCHANGED phaseVars

CallType == \E n \in TypeInputs : Finish("Type", n, CollectType(n, Start))

CallExpr == \E n \in ExprInputs : Finish("Expr", n, CollectExpr(n, Start))

CallBareFn == \E n \in BareFnInputs : Finish("TypeBareFn", n, CollectBareFn(n, Start))

CallPath == \E n \in PathInputs : Finish("Path", n, CollectPath(n, Start))

CallPathArguments ==
    \E n \in PathArgumentsInputs :
        Finish("PathArguments", n, CollectPathArguments(n, Start))

CallLifetime ==
    \E n \in {Lifetime("'a"), Lifetime("'b")} :
        Finish("Lifetime", n, CollectLifetime(n, Start))

CallTypeParamBound ==
    \E n \in TypeParamBounds :
        Finish("TypeParamBound", n, CollectTypeParamBound(n, Start))

CallTypeParam ==
    \E n \in TypeParamInputs : Finish("TypeParam", n, CollectTypeParam(n, Start))

CallLifetimeDef ==
    \E n \in LifetimeDefInputs :
        Finish("LifetimeDef", n, CollectLifetimeDef(n, Start))

CallWherePredicate ==
    \E n \in WherePredicateInputs :
        Finish("WherePredicate", n, CollectWherePredicate(n, Start))

NextCollect ==
    \/ CallType
    \/ CallExpr
    \/ CallBareFn
    \/ CallPath
    \/ CallPathArguments
    \/ CallLifetime
    \/ CallTypeParamBound
    \/ CallTypeParam
    \/ CallLifetimeDef
    \/ CallWherePredicate

SpecCollect == InitCollect /\ [][NextCollect]_vars

(***************************************************************************)
(* Properties of the phase container, checked under SpecPhase.             *)
(***************************************************************************)

\* The structural fields two machines share whatever their phase.
SameSkeleton(a, b) ==
    /\ a.ident = b.ident
    /\ a.vis = b.vis
    /\ a.generics = b.generics
    /\ a.attrs = b.attrs
    /\ a.derive = b.derive

\* The seven structural fields two states share whatever their phase.
SameStateFields(a, b) ==
    /\ a.ident = b.ident
    /\ a.attrs = b.attrs
    /\ a.fields = b.fields
    /\ a.start = b.start
    /\ a.ready = b.ready
    /\ a.error = b.error
    /\ a.transitions = b.transitions

\* C1: splitting an enum-shaped machine and joining the three parts again
\* gives a machine equal to the original on name, visibility, generics,
\* attributes, derive list, extra payload and the sequence of states.
C1_SplitJoinRoundTrip ==
    /\ (pc = "machine" /\ SplitReturns(machine)) =>
          LET p == Split(machine)
              j == Join(p[1], p[2], p[3])
          IN /\ SameSkeleton(j, machine)
             /\ j.extra = machine.extra
             /\ States(j) = States(machine)
    /\ (last.op = "join" /\ last.split_of # <<>>) =>
          LET m == last.split_of[1]
              p == Split(m)
          IN (last.self = p[1] /\ last.extra = p[2] /\ last.states = p[3]) =>
                /\ SameSkeleton(machine, m)
                /\ machine.extra = m.extra
                /\ States(machine) = States(m)
                /\ machine = m

\* A machine with a real payload and two states was split and joined again
\* with exactly the extracted parts.
C1_Witness ==
    /\ last.op = "join"
    /\ last.split_of # <<>>
    /\ last.extra = last.split_of[1].extra
    /\ last.states = States(last.split_of[1])
    /\ last.extra = "q2"
    /\ Len(last.states) = 2
    /\ last.states[1].extra # last.states[2].extra
    /\ machine = last.split_of[1]

\* C2: split only redistributes fields: the returned machine has the
\* original's name, visibility, generics, attributes and derive list, the
\* unit extra and no states; the second part is the original's extra; the
\* third is the original's states, in order, each with its own extra.
C2_SplitRedistributes ==
    (last.op = "split" /\ pc = "parts") =>
        /\ SameSkeleton(parts[1], last.self)
        /\ parts[1].extra = Unit
        /\ StatesReturns(parts[1])
        /\ States(parts[1]) = <<>>
        /\ parts[2] = last.self.extra
        /\ parts[3] = States(last.self)

\* A machine with payload q1 and two states carrying different payloads was
\* split.
C2_Witness ==
    /\ last.op = "split"
    /\ pc = "parts"
    /\ last.self.extra = "q1"
    /\ Len(parts[3]) = 2
    /\ parts[3][1].extra = "s1"
    /\ parts[3][2].extra = "s2"

\* C3: join keeps the NoPhase machine's name, visibility, generics,
\* attributes and derive list, takes the given extra, and its states are
\* exactly the given list in order; states the NoPhase machine held itself
\* do not appear.
C3_JoinPreservesSkeleton ==
    last.op = "join" =>
        /\ SameSkeleton(machine, last.self)
        /\ machine.extra = last.extra
        /\ StatesReturns(machine)
        /\ States(machine) = last.states
        /\ Len(States(machine)) = Len(last.states)

\* A NoPhase machine that held two states was joined with a payload and one
\* other state.
C3_Witness ==
    /\ last.op = "join"
    /\ Len(States(last.self)) = 2
    /\ Len(last.states) = 1
    /\ last.states[1].ident \notin {States(last.self)[i].ident : i \in 1..2}
    /\ last.extra = "q2"
    /\ last.states[1].extra = "s2"
    /\ States(machine) = last.states

\* C4: State::split returns a NoPhase state with the same name, attributes,
\* fields, start, ready, error and transitions and the unit extra, together
\* with the state's extra; State::join keeps those seven fields and takes the
\* given extra; so split followed by join with the extracted extra gives the
\* original state.
C4_StateSplitJoinPreserve ==
    /\ last.op = "state_split" =>
          /\ Len(state_parts) = Len(last.selfs)
          /\ \A i \in 1..Len(last.selfs) :
                /\ SameStateFields(state_parts[i][1], last.selfs[i])
                /\ state_parts[i][1].extra = Unit
                /\ state_parts[i][2] = last.selfs[i].extra
                /\ StateJoin(state_parts[i][1], state_parts[i][2]) = last.selfs[i]
    /\ last.op = "state_join" =>
          /\ Len(parts[3]) = Len(last.selfs)
          /\ \A i \in 1..Len(last.selfs) :
                /\ SameStateFields(parts[3][i], last.selfs[i])
                /\ parts[3][i].extra = last.extras[i]

\* Two split states, one of them the ready state, were joined with
\* different payloads.
C4_Witness ==
    /\ last.op = "state_join"
    /\ Len(last.selfs) = 2
    /\ last.selfs[1].ready
    /\ last.selfs[2].error
    /\ last.extras = <<"s2", "s1">>
    /\ parts[3][1].extra = "s2"
    /\ parts[3][1].ready

\* C5: and_then calls f exactly once, on the triple split returns, and
\* returns what f returns; when f rebuilds through join the result is
\* join of split's machine with f's extra and f's states.  The same for
\* State::and_then with the pair State::split returns.
C5_AndThenEquivalence ==
    /\ (last.op = "and_then" /\ pc = "machine") =>
          LET p == Split(last.self)
          IN /\ Len(last.f_calls) = 1
             /\ last.f_calls[1] = p
             /\ machine = ApplyMachineFn(last.f, p[1], p[2], p[3])
             /\ last.f.kind # "fresh" =>
                   machine = Join(p[1], MachineFnExtra(last.f, p[2]),
                                  MachineFnStates(last.f, p[3]))
    /\ last.op = "state_and_then" =>
          \A i \in 1..Len(last.selfs) :
             LET p == StateSplit(last.selfs[i])
             IN /\ Len(last.f_calls[i]) = 1
                /\ last.f_calls[i][1] = p
                /\ parts[3][i] = ApplyStateFn(last.f, p[1], p[2])
                /\ last.f.kind # "fresh" =>
                      parts[3][i] = StateJoin(p[1], StateFnExtra(last.f, p[1], p[2]))

\* and_then ran on a machine with a real payload and two states, with a
\* closure that rebuilds through join and keeps the payload.
C5_Witness ==
    /\ last.op = "and_then"
    /\ pc = "machine"
    /\ last.f.kind = "rejoin"
    /\ last.self.extra = "q2"
    /\ Len(States(last.self)) = 2
    /\ machine = last.self

(***************************************************************************)
(* Properties of the collector, checked under SpecCollect.                 *)
(***************************************************************************)

\* A call has ended, with a result or by a panic.
Called == cpc \in {"done", "aborted"}

\* The call was on a path: through impl Path, or through impl Type on a
\* Type::Path without a qualified self.
OnPath ==
    \/ entry = "Path"
    \/ entry = "Type" /\ node.kind = "Path" /\ node.qself = <<>>

\* The path of such a call.
ThePath == IF entry = "Path" THEN node ELSE node.path

\* The path `a::b::C<T>`.
PathABCT ==
    Path(FALSE, <<Segment("a", ArgsNone), Segment("b", ArgsNone),
                  Segment("C", ArgsAngle(<<[kind |-> "Type", ty |-> BareType("T")]>>))>>)

\* The identifiers of the bare single-identifier types written directly as
\* type arguments, bindings or parenthesized inputs of a path's segments.
BareArgumentIdents(q) ==
    UNION {LET a == q.segments[i].arguments
               tys == CASE a.kind = "AngleBracketed" ->
                             {a.args[j].ty : j \in {k \in 1..Len(a.args) :
                                                 a.args[k].kind \in {"Type", "Binding"}}}
                        [] a.kind = "Parenthesized" ->
                             {a.inputs[j] : j \in 1..Len(a.inputs)}
                        [] OTHER -> {}
           IN {y.path.segments[1].ident
                 : y \in {z \in tys : z.kind = "Path" /\ z.qself = <<>>
                                       /\ Len(z.path.segments) = 1
                                       /\ ~z.path.leading_colon}}
           : i \in 1..Len(q.segments)}

\* C6: a path adds its own identifier exactly when it has one segment and
\* no leading `::`; the identifiers of the segments of any other path are not
\* added, and the arguments of every segment are recursed into.  So `T`
\* gives {T} and `a::b::C<T>` gives {T}.
C6_PathRule ==
    (OnPath /\ cpc = "done") =>
        LET q == ThePath
            own == IF Len(q.segments) = 1 /\ ~q.leading_colon
                   THEN {q.segments[1].ident} ELSE {}
            segs == {q.segments[i].ident : i \in 1..Len(q.segments)}
        IN /\ own \subseteq idents
           /\ before \subseteq idents
           /\ BareArgumentIdents(q) \subseteq idents
           /\ (segs \ own) \cap idents \subseteq before \cup BareArgumentIdents(q)
           /\ idents = before \cup own
                         \cup CollectSegments(q.segments,
                                              [idents |-> {}, panicked |-> FALSE]).idents
           /\ (q = Path(FALSE, <<Segment("T", ArgsNone)>>) /\ before = {}) =>
                 idents = {"T"}
           /\ (q = PathABCT /\ before = {}) => idents = {"T"}

\* The collector ran on `a::b::C<T>` with an empty set and returned {T}.
C6_Witness ==
    /\ entry = "Path"
    /\ node = PathABCT
    /\ before = {}
    /\ cpc = "done"
    /\ idents = {"T"}

\* C7: for a slice, array, tuple, reference (with or without a region) or
\* pointer of the bare type T the call completes and its result holds T; for
\* the tuple (T, U) the result is exactly {T, U}.
C7_CompositeRecursion ==
    (Called /\ entry = "Type") =>
        /\ (node.kind \in {"Slice", "Array", "Reference", "Ptr"}
              /\ node.elem = BareType("T")) =>
                 (cpc = "done" /\ "T" \in idents)
        /\ (node.kind = "Tuple" /\ node.elems = <<BareType("T")>>) =>
                 (cpc = "done" /\ "T" \in idents)
        /\ (node.kind = "Tuple" /\ node.elems = <<BareType("T"), BareType("U")>>) =>
                 (cpc = "done" /\ idents = before \cup {"T", "U"})

RECURSIVE TypeReachesRegion(_)
RECURSIVE PathReachesRegion(_)
RECURSIVE ArgumentsReachRegion(_)

\* Whether a region stands at a place of the type the traversal visits.
TypeReachesRegion(y) ==
    CASE y.kind = "Path" ->
            \/ y.qself # <<>> /\ TypeReachesRegion(y.qself[1].ty)
            \/ PathReachesRegion(y.path)
      [] y.kind \in {"Slice", "Paren", "Ptr", "Array"} -> TypeReachesRegion(y.elem)
      [] y.kind = "Reference" -> y.lifetime # <<>> \/ TypeReachesRegion(y.elem)
      [] y.kind = "Tuple" -> \E i \in 1..Len(y.elems) : TypeReachesRegion(y.elems[i])
      [] y.kind = "BareFn" ->
            \/ \E i \in 1..Len(y.inputs) : TypeReachesRegion(y.inputs[i].ty)
            \/ y.output.kind = "Type" /\ TypeReachesRegion(y.output.ty)
      [] OTHER -> FALSE

\* Whether a region stands in the arguments of one of the path's segments.
PathReachesRegion(q) ==
    \E i \in 1..Len(q.segments) : ArgumentsReachRegion(q.segments[i].arguments)

\* Whether a region is an argument, or stands in a type argument, a binding
\* or a parenthesized input or output.
ArgumentsReachRegion(a) ==
    CASE a.kind = "AngleBracketed" ->
            \E i \in 1..Len(a.args) :
               \/ a.args[i].kind = "Lifetime"
               \/ a.args[i].kind \in {"Type", "Binding"} /\ TypeReachesRegion(a.args[i].ty)
      [] a.kind = "Parenthesized" ->
            \/ \E i \in 1..Len(a.inputs) : TypeReachesRegion(a.inputs[i])
            \/ a.output.kind = "Type" /\ TypeReachesRegion(a.output.ty)
      [] OTHER -> FALSE

\* Whether a higher-ranked binder is present and binds a region.
BinderReachesRegion(opt) == opt # <<>> /\ opt[1].lifetimes # <<>>

\* Whether a bound is a region, or a trait bound with a region in its binder
\* or its path.
BoundReachesRegion(b) ==
    \/ b.kind = "Lifetime"
    \/ b.kind = "Trait" /\ (BinderReachesRegion(b.lifetimes) \/ PathReachesRegion(b.path))

RECURSIVE ExprReachesRegion(_)
\* Whether a region stands at a place of the expression the traversal visits.
ExprReachesRegion(e) ==
    CASE e.kind = "Call" ->
            \/ ExprReachesRegion(e.func)
            \/ \E i \in 1..Len(e.args) : ExprReachesRegion(e.args[i])
      [] e.kind = "Binary" -> ExprReachesRegion(e.left) \/ ExprReachesRegion(e.right)
      [] e.kind = "Index" -> ExprReachesRegion(e.expr) \/ ExprReachesRegion(e.index)
      [] e.kind \in {"Unary", "Paren"} -> ExprReachesRegion(e.expr)
      [] e.kind = "Cast" -> TypeReachesRegion(e.ty) \/ ExprReachesRegion(e.expr)
      [] e.kind = "Path" -> PathReachesRegion(e.path)
      [] OTHER -> FALSE

\* Whether the traversal of the node the collector was called on reaches a
\* region.
ReachesRegion ==
    CASE entry = "Type" -> TypeReachesRegion(node)
      [] entry = "Expr" -> ExprReachesRegion(node)
      [] entry = "TypeBareFn" -> TypeReachesRegion(node)
      [] entry = "Path" -> PathReachesRegion(node)
      [] entry = "PathArguments" -> ArgumentsReachRegion(node)
      [] entry = "Lifetime" -> TRUE
      [] entry = "TypeParamBound" -> BoundReachesRegion(node)
      [] entry = "TypeParam" ->
            \/ node.default # <<>> /\ TypeReachesRegion(node.default[1])
            \/ \E i \in 1..Len(node.bounds) : BoundReachesRegion(node.bounds[i])
      [] entry = "LifetimeDef" -> TRUE
      [] entry = "WherePredicate" ->
            CASE node.kind = "Type" ->
                    \/ BinderReachesRegion(node.lifetimes)
                    \/ \E i \in 1..Len(node.bounds) : BoundReachesRegion(node.bounds[i])
                    \/ TypeReachesRegion(node.bounded_ty)
              [] node.kind = "Lifetime" -> TRUE
              [] node.kind = "Eq" ->
                    TypeReachesRegion(node.lhs_ty) \/ TypeReachesRegion(node.rhs_ty)

OpaqueKinds == {"Never", "Macro", "TraitObject", "ImplTrait", "Infer"}

\* C9: a call on a never type, a macro type, a trait object, an impl-trait
\* type, an inferred type or a literal expression returns with the set as it
\* was, whatever is written inside the form.
C9_OpaqueTerminates ==
    Called =>
        /\ (entry = "Type" /\ node.kind \in OpaqueKinds) =>
              (cpc = "done" /\ idents = before)
        /\ (entry = "Expr" /\ node.kind = "Lit") =>
              (cpc = "done" /\ idents = before)
        /\ (entry = "Type" /\ node.kind \in {"Slice", "Paren", "Ptr", "Array"}
              /\ node.elem.kind \in OpaqueKinds) =>
              (cpc = "done" /\ idents = before)

\* A call on `dyn Trait<T> + 'a` with the set {C, X} returned {C, X}.
C9_Witness ==
    /\ entry = "Type"
    /\ node.kind = "TraitObject"
    /\ Len(node.bounds) = 2
    /\ node.bounds[1].kind = "Trait"
    /\ node.bounds[1].path.segments[1].arguments
          = ArgsAngle(<<[kind |-> "Type", ty |-> BareType("U")]>>)
    /\ node.bounds[2].kind = "Lifetime"
    /\ before = {"C", "X"}
    /\ cpc = "done"
    /\ idents = {"C", "X"}

\* C10: a call on a type-parameter declaration adds the parameter's own
\* identifier, whatever its bounds are, and what its default type and its
\* bounds give; `T: Trait<U>` gives T and U.
C10_TypeParamDeclarations ==
    (Called /\ entry = "TypeParam") =>
        /\ cpc = "done"
        /\ node.ident \in idents
        /\ before \subseteq idents
        /\ (\E i \in 1..Len(node.bounds) :
               /\ node.bounds[i].kind = "Trait"
               /\ node.bounds[i].path.segments[1].arguments
                     = ArgsAngle(<<[kind |-> "Type", ty |-> BareType("U")]>>))
              => "U" \in idents

=============================================================================
